---- MODULE Spec2Model ----
(***************************************************************************)
(* HackerMap (project/): the relational store behind the request handlers  *)
(* of views.py, the form validators of forms.py and the constraints of     *)
(* models.py.  One action per handler; a handler runs as one step under    *)
(* Spec (one request at a time).                                           *)
(***************************************************************************)
EXTENDS Integers, FiniteSets, Sequences, TLC

(* ------------------------------ bounds --------------------------------- *)
MaxCapacity == 2        \* largest capacity typed into a house form
MaxImages   == 2        \* HouseImage primary keys handed out
MaxFollowId == 2        \* Follow primary keys handed out
MaxEvents   == 1        \* Event rows
MaxTime     == 1        \* datetimes are 0..MaxTime
MaxInflight == 2        \* requests in flight at once (SpecRace)

(* ------------------------------ domains -------------------------------- *)
None       == "None"      \* a null user reference, a missing form field
NoPk       == 0           \* a null primary key
NoTime     == -1          \* a datetime field left empty or unparseable
Anonymous  == "AnonymousUser"
Users      == {"sample_host", "ann", "bob"}
Actors     == Users \cup {Anonymous}
NoSuchUser == "no_such_user"
UserPks    == Users \cup {NoSuchUser}
HousePks   == {1, 2}
Times      == 0..MaxTime
Slots      == 1..MaxInflight

Titles         == {"Loft", "Hub"}
TitleInputs    == Titles \cup {""}
Descriptions   == {"", "demo nights"}
CapacityInputs == (-1)..MaxCapacity
Uploads        == {None, "photo"}
TimeInputs     == Times \cup {NoTime}

\* populate_houses: host, capacity range and batch size of the sample houses
SeedHost   == "sample_host"
SeedCapMin == 4
SeedCapMax == 20
SeedCount  == 20
SeedCapacities == {SeedCapMin, SeedCapMax}

\* accounts that were given a Profile row (CreateAccountForm.save creates none)
ProfiledUsers == {"ann"}

VARIABLES
    houses,        \* HackerHouse table: sequence, index = pk
    images,        \* HouseImage table: set of [id, house]
    nextImageId,   \* next HouseImage primary key
    follows,       \* Follow table: set of [id, follower, following_user, following_house]
    nextFollowId,  \* next Follow primary key
    events,        \* Event table: set of [id, house, created_by, start_time, end_time]
    profiles,      \* users that have a Profile row
    resp,          \* the response to the last request
    toggled,       \* the current run of identical ToggleFollow requests
    inflight       \* requests that have read the store and not yet written

store == <<houses, images, nextImageId, follows, nextFollowId, events, profiles>>
vars  == <<houses, images, nextImageId, follows, nextFollowId, events, profiles,
           resp, toggled, inflight>>

(* ------------------------------ helpers -------------------------------- *)
is_authenticated(actor) == actor \in Users

HouseExists(pk) == pk \in DOMAIN houses

MemberCount(house) == Cardinality(house.members)

\* A response: the request it answers (handler, requesting user, the user or house
\* pk of the route), its outcome, and how it is delivered (redirect with a notice of
\* some level, rendered page, 404 or 500).
Response(op, actor, user, house, outcome, kind, page, level) ==
    [op |-> op, actor |-> actor, user |-> user, house |-> house,
     outcome |-> outcome, kind |-> kind, page |-> page, level |-> level]

NoResponse == Response("none", None, None, NoPk, "none", "none", "none", "none")

LoginRedirect(op, actor, user, house) ==
    Response(op, actor, user, house, "LoginRequired", "redirect", "login", "none")

Http404(op, actor, user, house) ==
    Response(op, actor, user, house, "NotFound", "not_found", "none", "none")

ServerError(op, actor, user, house, outcome) ==
    Response(op, actor, user, house, outcome, "server_error", "none", "none")

\* no run of ToggleFollow requests is under way
NoToggle == [follower |-> None, following_user |-> None, following_house |-> NoPk,
             before |-> {}, count |-> 0]

(* --------------------------- JoinHouseView ----------------------------- *)
\* the checks of JoinHouseView.post with the last two swapped
JoinOutcomeActiveFirst(house, user) ==
    IF user \in house.members THEN "AlreadyMember"
    ELSE IF ~house.is_active THEN "HouseInactive"
    ELSE IF MemberCount(house) >= house.capacity THEN "HouseFull"
    ELSE "Joined"

JoinOutcome(house, user) ==
    IF user \in house.members THEN "AlreadyMember"
    ELSE IF MemberCount(house) >= house.capacity THEN "HouseFull"
    ELSE IF ~house.is_active THEN "HouseInactive"
    ELSE "Joined"

JoinLevel(outcome) ==
    CASE outcome = "AlreadyMember" -> "info"
      [] outcome = "HouseFull"     -> "warning"
      [] outcome = "HouseInactive" -> "warning"
      [] outcome = "Joined"        -> "success"

JoinHouse(actor, pk) ==
    /\ IF ~is_authenticated(actor)
       THEN /\ resp' = LoginRedirect("Join", actor, None, pk)
            /\ UNCHANGED houses
       ELSE IF ~HouseExists(pk)
       THEN /\ resp' = Http404("Join", actor, None, pk)
            /\ UNCHANGED houses
       ELSE LET outcome == JoinOutcome(houses[pk], actor) IN
            /\ houses' = IF outcome = "Joined"
                         THEN [houses EXCEPT ![pk].members = @ \cup {actor}]
                         ELSE houses
            /\ resp' = Response("Join", actor, None, pk, outcome, "redirect",
                                "hackerhouse_detail", JoinLevel(outcome))
    /\ toggled' = NoToggle
    /\ UNCHANGED <<images, nextImageId, follows, nextFollowId, events, profiles, inflight>>

(* --------------------------- LeaveHouseView ---------------------------- *)
\* the checks of LeaveHouseView.post with membership tested before the host
LeaveOutcomeMemberFirst(house, user) ==
    IF user \in house.members THEN "Left"
    ELSE IF house.host = user THEN "IsHost"
    ELSE "NotMember"

\* the checks of LeaveHouseView.post without the host test
LeaveOutcomeHostMayLeave(house, user) ==
    IF user \in house.members THEN "Left" ELSE "NotMember"

LeaveOutcome(house, user) ==
    IF house.host = user THEN "IsHost"
    ELSE IF user \in house.members THEN "Left"
    ELSE "NotMember"

LeaveLevel(outcome) ==
    CASE outcome = "IsHost"    -> "warning"
      [] outcome = "Left"      -> "success"
      [] outcome = "NotMember" -> "info"

LeaveHouse(actor, pk) ==
    /\ IF ~is_authenticated(actor)
       THEN /\ resp' = LoginRedirect("Leave", actor, None, pk)
            /\ UNCHANGED houses
       ELSE IF ~HouseExists(pk)
       THEN /\ resp' = Http404("Leave", actor, None, pk)
            /\ UNCHANGED houses
       ELSE LET outcome == LeaveOutcome(houses[pk], actor) IN
            /\ houses' = IF outcome = "Left"
                         THEN [houses EXCEPT ![pk].members = @ \ {actor}]
                         ELSE houses
            /\ resp' = Response("Leave", actor, None, pk, outcome, "redirect",
                                "hackerhouse_detail", LeaveLevel(outcome))
    /\ toggled' = NoToggle
    /\ UNCHANGED <<images, nextImageId, follows, nextFollowId, events, profiles, inflight>>

(* ------------------------------ forms ---------------------------------- *)
\* ModelForm field validation of HackerHouseCreateForm / HackerHouseEditForm:
\* title is required, capacity is a PositiveIntegerField (0 is accepted).
HouseFormValid(title, capacity) == title # "" /\ capacity >= 0

(* --------------------------- CreateHouseView --------------------------- *)
NewHouse(host, title, description, capacity) ==
    [host |-> host, title |-> title, description |-> description,
     capacity |-> capacity, is_active |-> TRUE, members |-> {},
     origin |-> "CreateHouse"]

\* the host added only while the house has room
AddMemberIfRoom(house, user) ==
    IF MemberCount(house) < house.capacity
    THEN [house EXCEPT !.members = @ \cup {user}]
    ELSE house

\* self.object.members.add(self.request.user)
AddMember(house, user) == [house EXCEPT !.members = @ \cup {user}]

CreateHouse(actor, title, description, capacity, upload) ==
    /\ Len(houses) + 1 \in HousePks
    /\ upload # None => nextImageId <= MaxImages
    /\ IF ~is_authenticated(actor)
       THEN /\ resp' = LoginRedirect("CreateHouse", actor, None, NoPk)
            /\ UNCHANGED <<houses, images, nextImageId>>
       ELSE IF ~HouseFormValid(title, capacity)
       THEN /\ resp' = Response("CreateHouse", actor, None, NoPk, "Invalid",
                                "render", "house_create", "none")
            /\ UNCHANGED <<houses, images, nextImageId>>
       ELSE LET pk == Len(houses) + 1
                saved == NewHouse(actor, title, description, capacity) IN
            /\ houses' = Append(houses, AddMember(saved, actor))
            /\ IF upload # None
               THEN /\ images' = images \cup {[id |-> nextImageId, house |-> pk]}
                    /\ nextImageId' = nextImageId + 1
               ELSE UNCHANGED <<images, nextImageId>>
            /\ resp' = Response("CreateHouse", actor, None, pk, "Created",
                                "redirect", "hackerhouse_detail", "success")
    /\ toggled' = NoToggle
    /\ UNCHANGED <<follows, nextFollowId, events, profiles, inflight>>

(* ---------------------------- EditHouseView ---------------------------- *)
\* the host test left out
test_funcAnyUser(actor, pk) == TRUE

test_func(actor, pk) == actor = houses[pk].host

EditHouse(actor, pk, title, description, capacity, upload) ==
    /\ upload # None => nextImageId <= MaxImages
    /\ IF ~is_authenticated(actor)
       THEN \* handle_no_permission is overridden: notice and house page
            /\ resp' = Response("EditHouse", actor, None, pk, "PermissionDenied",
                                "redirect", "hackerhouse_detail", "error")
            /\ UNCHANGED <<houses, images, nextImageId>>
       ELSE IF ~HouseExists(pk)
       THEN /\ resp' = Http404("EditHouse", actor, None, pk)
            /\ UNCHANGED <<houses, images, nextImageId>>
       ELSE IF ~test_func(actor, pk)
       THEN /\ resp' = Response("EditHouse", actor, None, pk, "PermissionDenied",
                                "redirect", "hackerhouse_detail", "error")
            /\ UNCHANGED <<houses, images, nextImageId>>
       ELSE IF ~HouseFormValid(title, capacity)
       THEN /\ resp' = Response("EditHouse", actor, None, pk, "Invalid",
                                "render", "house_edit", "none")
            /\ UNCHANGED <<houses, images, nextImageId>>
       ELSE /\ houses' = [houses EXCEPT ![pk].title = title,
                                        ![pk].description = description,
                                        ![pk].capacity = capacity]
            /\ IF upload # None
               THEN /\ images' = images \cup {[id |-> nextImageId, house |-> pk]}
                    /\ nextImageId' = nextImageId + 1
               ELSE UNCHANGED <<images, nextImageId>>
            /\ resp' = Response("EditHouse", actor, None, pk, "Updated",
                                "redirect", "hackerhouse_detail", "success")
    /\ toggled' = NoToggle
    /\ UNCHANGED <<follows, nextFollowId, events, profiles, inflight>>

(* ------------------------- DeleteHouseImageView ------------------------ *)
\* the image looked up by its pk alone
GetHouseImageAnyHouse(pk, image_pk) == {i \in images : i.id = image_pk}

\* get_object_or_404(HouseImage, pk=image_pk, house=house): the rows it matches
GetHouseImage(pk, image_pk) == {i \in images : i.id = image_pk /\ i.house = pk}

DeleteHouseImage(actor, pk, image_pk) ==
    /\ IF ~is_authenticated(actor)
       THEN /\ resp' = LoginRedirect("DeleteImage", actor, None, pk)
            /\ UNCHANGED images
       ELSE IF ~HouseExists(pk)
       THEN /\ resp' = Http404("DeleteImage", actor, None, pk)
            /\ UNCHANGED images
       ELSE IF actor # houses[pk].host
       THEN /\ resp' = Response("DeleteImage", actor, None, pk, "PermissionDenied",
                                "redirect", "edit_house", "error")
            /\ UNCHANGED images
       ELSE IF GetHouseImage(pk, image_pk) = {}
       THEN /\ resp' = Http404("DeleteImage", actor, None, pk)
            /\ UNCHANGED images
       ELSE /\ images' = images \ GetHouseImage(pk, image_pk)
            /\ resp' = Response("DeleteImage", actor, None, pk, "Deleted",
                                "redirect", "edit_house", "success")
    /\ toggled' = NoToggle
    /\ UNCHANGED <<houses, nextImageId, follows, nextFollowId, events, profiles, inflight>>

(* ----------------------- populate_houses command ----------------------- *)
\* The command bulk-creates SeedCount houses hosted by SeedHost, active, with
\* no members; the model creates as many of them as HousePks has room for.
SeedHouse(capacity) ==
    [host |-> SeedHost, title |-> "Loft", description |-> "demo nights",
     capacity |-> capacity, is_active |-> TRUE, members |-> {},
     origin |-> "populate_houses"]

PopulateHouses ==
    LET free == Cardinality(HousePks) - Len(houses)
        n    == IF SeedCount < free THEN SeedCount ELSE free IN
    /\ n > 0
    /\ \E caps \in [1..n -> SeedCapacities] :
           houses' = houses \o [i \in 1..n |-> SeedHouse(caps[i])]
    /\ resp' = NoResponse
    /\ toggled' = NoToggle
    /\ UNCHANGED <<images, nextImageId, follows, nextFollowId, events, profiles,
                   inflight>>

(* ------------------------- admin: HackerHouseAdmin --------------------- *)
\* is_active is in no form of the site; only the admin change form sets it.
AdminSetActive(pk, value) ==
    /\ HouseExists(pk)
    /\ houses[pk].is_active # value
    /\ houses' = [houses EXCEPT ![pk].is_active = value]
    /\ resp' = NoResponse
    /\ toggled' = NoToggle
    /\ UNCHANGED <<images, nextImageId, follows, nextFollowId, events, profiles,
                   inflight>>

(* ------------------------- Follow table (models.py) -------------------- *)
FollowRow(id, follower, following_user, following_house) ==
    [id |-> id, follower |-> follower, following_user |-> following_user,
     following_house |-> following_house]

NoRow == FollowRow(NoPk, None, None, NoPk)

\* the table without its check constraint
FollowTargetUnchecked(row) == TRUE

follow_exactly_one_target(row) ==
    \/ (row.following_user # None /\ row.following_house = NoPk)
    \/ (row.following_user = None /\ row.following_house # NoPk)

\* the table without its unique constraint on (follower, following_user)
UniqueUserFollowOff(table, row) == TRUE

unique_user_follow(table, row) ==
    row.following_user # None =>
        ~\E r \in table : /\ r.id # row.id
                          /\ r.follower = row.follower
                          /\ r.following_user = row.following_user

unique_house_follow(table, row) ==
    row.following_house # NoPk =>
        ~\E r \in table : /\ r.id # row.id
                          /\ r.follower = row.follower
                          /\ r.following_house = row.following_house

\* The store accepts an INSERT only if every constraint holds; otherwise it
\* raises IntegrityError naming a violated constraint.
FollowViolation(table, row) ==
    IF ~follow_exactly_one_target(row) THEN "follow_exactly_one_target"
    ELSE IF ~unique_user_follow(table, row) THEN "unique_user_follow"
    ELSE IF ~unique_house_follow(table, row) THEN "unique_house_follow"
    ELSE "none"

FollowConstraints(table, row) == FollowViolation(table, row) = "none"

\* the query of the toggle views with the follower filter left out
FirstFollowAnyFollower(table, follower, following_user, following_house) ==
    LET found == {r \in table :
                     /\ following_user # None => r.following_user = following_user
                     /\ following_house # NoPk => r.following_house = following_house}
    IN IF found = {} THEN NoRow
       ELSE CHOOSE r \in found : \A q \in found : r.id <= q.id

\* Follow.objects.filter(follower=, following_user= / following_house=).first():
\* the matching row of least pk, or no row.
FirstFollow(table, follower, following_user, following_house) ==
    LET found == {r \in table :
                     /\ r.follower = follower
                     /\ following_user # None => r.following_user = following_user
                     /\ following_house # NoPk => r.following_house = following_house}
    IN IF found = {} THEN NoRow
       ELSE CHOOSE r \in found : \A q \in found : r.id <= q.id

\* instance.delete(): DELETE ... WHERE id = pk, no error when the row is gone.
FollowDelete(table, row) == {r \in table : r.id # row.id}

\* What a Follow row says: who follows whom (pk and created_at left out).
FollowPair(row) ==
    [follower |-> row.follower, following_user |-> row.following_user,
     following_house |-> row.following_house]

FollowPairs(table) == {FollowPair(r) : r \in table}

\* Bookkeeping for runs of one follower toggling one target.
Toggled(follower, following_user, following_house) ==
    IF /\ toggled.count = 1
       /\ toggled.follower = follower
       /\ toggled.following_user = following_user
       /\ toggled.following_house = following_house
    THEN [toggled EXCEPT !.count = 2]
    ELSE [follower |-> follower, following_user |-> following_user,
          following_house |-> following_house,
          before |-> FollowPairs(follows), count |-> 1]

(* --------------------------- ToggleFollowView -------------------------- *)
\* the self-follow test left out
IsSelfFollowNever(target_user, current_user) == FALSE

\* `if target_user == current_user`
IsSelfFollow(target_user, current_user) == target_user = current_user

\* target_user.profile raises RelatedObjectDoesNotExist when there is no Profile
\* row; the message is built after the row was written or deleted.
ToggleFollowResponse(actor, pk, outcome) ==
    IF pk \in profiles
    THEN Response("ToggleFollow", actor, pk, NoPk, outcome, "redirect",
                  "user_profile_detail", "success")
    ELSE ServerError("ToggleFollow", actor, pk, NoPk, outcome)

ToggleFollow(actor, pk) ==
    /\ IF ~is_authenticated(actor)
       THEN /\ resp' = LoginRedirect("ToggleFollow", actor, pk, NoPk)
            /\ toggled' = NoToggle
            /\ UNCHANGED <<follows, nextFollowId>>
       ELSE /\ toggled' = Toggled(actor, pk, NoPk)
            /\ IF pk \notin Users
               THEN /\ resp' = Http404("ToggleFollow", actor, pk, NoPk)
                    /\ UNCHANGED <<follows, nextFollowId>>
               ELSE IF IsSelfFollow(pk, actor)
               THEN /\ resp' = Response("ToggleFollow", actor, pk, NoPk, "SelfFollow",
                                        "redirect", "user_profile_detail", "warning")
                    /\ UNCHANGED <<follows, nextFollowId>>
               ELSE LET follow_relation == FirstFollow(follows, actor, pk, NoPk)
                        row == FollowRow(nextFollowId, actor, pk, NoPk) IN
                    IF follow_relation # NoRow
                    THEN /\ follows' = FollowDelete(follows, follow_relation)
                         /\ resp' = ToggleFollowResponse(actor, pk, "Unfollowed")
                         /\ UNCHANGED nextFollowId
                    ELSE /\ nextFollowId <= MaxFollowId
                         /\ IF FollowConstraints(follows, row)
                            THEN /\ follows' = follows \cup {row}
                                 /\ nextFollowId' = nextFollowId + 1
                                 /\ resp' = ToggleFollowResponse(actor, pk, "Followed")
                            ELSE /\ resp' = ServerError("ToggleFollow", actor, pk, NoPk,
                                                        FollowViolation(follows, row))
                                 /\ UNCHANGED <<follows, nextFollowId>>
    /\ UNCHANGED <<houses, images, nextImageId, events, profiles, inflight>>

(* ------------------------- ToggleFollowHouseView ----------------------- *)
ToggleFollowHouse(actor, pk) ==
    /\ IF ~is_authenticated(actor)
       THEN /\ resp' = LoginRedirect("ToggleFollowHouse", actor, None, pk)
            /\ toggled' = NoToggle
            /\ UNCHANGED <<follows, nextFollowId>>
       ELSE /\ toggled' = Toggled(actor, None, pk)
            /\ IF ~HouseExists(pk)
               THEN /\ resp' = Http404("ToggleFollowHouse", actor, None, pk)
                    /\ UNCHANGED <<follows, nextFollowId>>
               ELSE LET follow_relation == FirstFollow(follows, actor, None, pk)
                        row == FollowRow(nextFollowId, actor, None, pk) IN
                    IF follow_relation # NoRow
                    THEN /\ follows' = FollowDelete(follows, follow_relation)
                         /\ resp' = Response("ToggleFollowHouse", actor, None, pk, "Unfollowed",
                                             "redirect", "hackerhouse_detail", "success")
                         /\ UNCHANGED nextFollowId
                    ELSE /\ nextFollowId <= MaxFollowId
                         /\ IF FollowConstraints(follows, row)
                            THEN /\ follows' = follows \cup {row}
                                 /\ nextFollowId' = nextFollowId + 1
                                 /\ resp' = Response("ToggleFollowHouse", actor, None, pk,
                                                     "Followed", "redirect",
                                                     "hackerhouse_detail", "success")
                            ELSE /\ resp' = ServerError("ToggleFollowHouse", actor, None, pk,
                                                        FollowViolation(follows, row))
                                 /\ UNCHANGED <<follows, nextFollowId>>
    /\ UNCHANGED <<houses, images, nextImageId, events, profiles, inflight>>

(* --------------------------- admin: FollowAdmin ------------------------ *)
\* The admin add form writes a Follow row with any follower and any pair of
\* (nullable) targets; the store checks the constraints of Follow.Meta.
AdminAddFollow(follower, following_user, following_house) ==
    LET row == FollowRow(nextFollowId, follower, following_user, following_house) IN
    /\ nextFollowId <= MaxFollowId
    /\ following_house # NoPk => HouseExists(following_house)
    /\ IF FollowConstraints(follows, row)
       THEN /\ follows' = follows \cup {row}
            /\ nextFollowId' = nextFollowId + 1
            /\ resp' = Response("AdminAddFollow", None, None, NoPk, "Added",
                                "redirect", "admin", "success")
       ELSE /\ resp' = Response("AdminAddFollow", None, None, NoPk,
                                FollowViolation(follows, row), "render", "admin", "error")
            /\ UNCHANGED <<follows, nextFollowId>>
    /\ toggled' = NoToggle
    /\ UNCHANGED <<houses, images, nextImageId, events, profiles, inflight>>

(* ---------------------------- EventCreateForm -------------------------- *)
\* Field validation: title, location, start_time and end_time are required;
\* a time that does not parse is a missing value.
EventFieldsValid(title, location, start_time, end_time) ==
    /\ title # ""
    /\ location # ""
    /\ start_time # NoTime
    /\ end_time # NoTime

\* clean with `<` for `<=`
cleanAllowsEqual(start_time, end_time) ==
    ~(start_time # NoTime /\ end_time # NoTime /\ end_time < start_time)

\* EventCreateForm.clean: TRUE when it raises no ValidationError.
clean(start_time, end_time) ==
    ~(start_time # NoTime /\ end_time # NoTime /\ end_time <= start_time)

\* What the re-rendered form reports: the non-field error of clean, else field errors.
EventFormError(start_time, end_time) ==
    IF clean(start_time, end_time) THEN "Invalid" ELSE "InvalidRange"

EventFormValid(title, location, start_time, end_time) ==
    /\ EventFieldsValid(title, location, start_time, end_time)
    /\ clean(start_time, end_time)

(* -------------------------- CreateHouseEventView ----------------------- *)
\* the membership test as of the time the user joined, not of the request
MayCreateEventAnyone(house, user) == TRUE

MayCreateEvent(house, user) ==
    LET is_member == user \in house.members
        is_host   == house.host = user
    IN is_member \/ is_host

CreateHouseEvent(actor, pk, title, location, start_time, end_time) ==
    /\ IF ~is_authenticated(actor)
       THEN /\ resp' = LoginRedirect("CreateEvent", actor, None, pk)
            /\ UNCHANGED events
       ELSE IF ~HouseExists(pk)
       THEN /\ resp' = Http404("CreateEvent", actor, None, pk)
            /\ UNCHANGED events
       ELSE IF ~MayCreateEvent(houses[pk], actor)
       THEN /\ resp' = Response("CreateEvent", actor, None, pk, "PermissionDenied",
                                "redirect", "hackerhouse_detail", "error")
            /\ UNCHANGED events
       ELSE IF EventFormValid(title, location, start_time, end_time)
       THEN /\ Cardinality(events) < MaxEvents
            /\ events' = events \cup
                  {[id |-> Cardinality(events) + 1, house |-> pk, created_by |-> actor,
                    start_time |-> start_time, end_time |-> end_time]}
            /\ resp' = Response("CreateEvent", actor, None, pk, "Created",
                                "redirect", "hackerhouse_detail", "success")
       ELSE /\ resp' = Response("CreateEvent", actor, None, pk,
                                EventFormError(start_time, end_time),
                                "render", "event_create", "none")
            /\ UNCHANGED events
    /\ toggled' = NoToggle
    /\ UNCHANGED <<houses, images, nextImageId, follows, nextFollowId, profiles, inflight>>

(* ---------------------------- admin: EventAdmin ------------------------ *)
\* The admin add form writes an Event row for any creator, with a house or with
\* none (house is nullable); EventCreateForm and its clean are not involved.
AdminAddEvent(created_by, house, start_time, end_time) ==
    /\ Cardinality(events) < MaxEvents
    /\ house # NoPk => HouseExists(house)
    /\ events' = events \cup
          {[id |-> Cardinality(events) + 1, house |-> house, created_by |-> created_by,
            start_time |-> start_time, end_time |-> end_time]}
    /\ resp' = Response("AdminAddEvent", None, None, house, "Added",
                        "redirect", "admin", "success")
    /\ toggled' = NoToggle
    /\ UNCHANGED <<houses, images, nextImageId, follows, nextFollowId, profiles, inflight>>

(* --------------------------- EventCalendarView ------------------------- *)
\* the houses of the feed taken to be those followed or lived in
FollowedOrMemberHouseIds(user) ==
    {r.following_house : r \in {q \in follows : /\ q.follower = user
                                                /\ q.following_house # NoPk}}
    \cup {pk \in DOMAIN houses : user \in houses[pk].members}

\* Follow.objects.filter(follower=user, following_house__isnull=False)
\*       .values_list('following_house_id', flat=True)
followed_house_ids(user) ==
    {r.following_house : r \in {q \in follows : /\ q.follower = user
                                                /\ q.following_house # NoPk}}

\* context['events'] of get_context_data; house_id__in matches no NULL house_id
EventCalendar(user) ==
    IF is_authenticated(user)
    THEN {e \in events : e.house # NoPk /\ e.house \in followed_house_ids(user)}
    ELSE {}

\* GET /events/: the page is rendered for anyone, with the events of the context
EventCalendarGet(actor) ==
    /\ resp' = [op |-> "EventCalendar", actor |-> actor, user |-> None, house |-> NoPk,
                outcome |-> "Listed", kind |-> "render", page |-> "event_calendar",
                level |-> "none", events |-> EventCalendar(actor)]
    /\ toggled' = NoToggle
    /\ UNCHANGED <<houses, images, nextImageId, follows, nextFollowId, events, profiles,
                   inflight>>

(* ------------------- concurrent requests (SpecRace) -------------------- *)
\* A request in flight has run its query and holds the result; its write is a
\* later step, so other requests can read and write in between.
Request(op, actor, user, house, found) ==
    [op |-> op, actor |-> actor, user |-> user, house |-> house, found |-> found]

NoRequest == Request("none", None, None, NoPk, NoRow)

\* ToggleFollowView.post up to follow_relation = ....first()
ToggleFollowRead(slot, actor, pk) ==
    /\ inflight[slot] = NoRequest
    /\ is_authenticated(actor)
    /\ pk \in Users
    /\ ~IsSelfFollow(pk, actor)
    /\ inflight' = [inflight EXCEPT ![slot] =
           Request("ToggleFollow", actor, pk, NoPk, FirstFollow(follows, actor, pk, NoPk))]
    /\ UNCHANGED <<houses, images, nextImageId, follows, nextFollowId, events,
                   profiles, resp, toggled>>

\* ToggleFollowView.post from `if follow_relation:` on
ToggleFollowWrite(slot) ==
    LET req == inflight[slot]
        row == FollowRow(nextFollowId, req.actor, req.user, NoPk) IN
    /\ req.op = "ToggleFollow"
    /\ IF req.found # NoRow
       THEN /\ follows' = FollowDelete(follows, req.found)
            /\ resp' = ToggleFollowResponse(req.actor, req.user, "Unfollowed")
            /\ UNCHANGED nextFollowId
       ELSE /\ nextFollowId <= MaxFollowId
            /\ IF FollowConstraints(follows, row)
               THEN /\ follows' = follows \cup {row}
                    /\ nextFollowId' = nextFollowId + 1
                    /\ resp' = ToggleFollowResponse(req.actor, req.user, "Followed")
               ELSE /\ resp' = ServerError("ToggleFollow", req.actor, req.user, NoPk,
                                           FollowViolation(follows, row))
                    /\ UNCHANGED <<follows, nextFollowId>>
    /\ inflight' = [inflight EXCEPT ![slot] = NoRequest]
    /\ toggled' = NoToggle
    /\ UNCHANGED <<houses, images, nextImageId, events, profiles>>

\* ToggleFollowHouseView.post up to follow_relation = ....first()
ToggleFollowHouseRead(slot, actor, pk) ==
    /\ inflight[slot] = NoRequest
    /\ is_authenticated(actor)
    /\ HouseExists(pk)
    /\ inflight' = [inflight EXCEPT ![slot] =
           Request("ToggleFollowHouse", actor, None, pk,
                   FirstFollow(follows, actor, None, pk))]
    /\ UNCHANGED <<houses, images, nextImageId, follows, nextFollowId, events,
                   profiles, resp, toggled>>

\* ToggleFollowHouseView.post from `if follow_relation:` on
ToggleFollowHouseWrite(slot) ==
    LET req == inflight[slot]
        row == FollowRow(nextFollowId, req.actor, None, req.house) IN
    /\ req.op = "ToggleFollowHouse"
    /\ IF req.found # NoRow
       THEN /\ follows' = FollowDelete(follows, req.found)
            /\ resp' = Response("ToggleFollowHouse", req.actor, None, req.house, "Unfollowed",
                                "redirect", "hackerhouse_detail", "success")
            /\ UNCHANGED nextFollowId
       ELSE /\ nextFollowId <= MaxFollowId
            /\ IF FollowConstraints(follows, row)
               THEN /\ follows' = follows \cup {row}
                    /\ nextFollowId' = nextFollowId + 1
                    /\ resp' = Response("ToggleFollowHouse", req.actor, None, req.house,
                                        "Followed", "redirect", "hackerhouse_detail",
                                        "success")
               ELSE /\ resp' = ServerError("ToggleFollowHouse", req.actor, None, req.house,
                                           FollowViolation(follows, row))
                    /\ UNCHANGED <<follows, nextFollowId>>
    /\ inflight' = [inflight EXCEPT ![slot] = NoRequest]
    /\ toggled' = NoToggle
    /\ UNCHANGED <<houses, images, nextImageId, events, profiles>>

\* the user added only if the house still has room when the row is written
JoinAddIfRoom(house, user) ==
    IF MemberCount(house) < house.capacity
    THEN [house EXCEPT !.members = @ \cup {user}]
    ELSE house

\* house.members.add(user)
JoinAdd(house, user) == [house EXCEPT !.members = @ \cup {user}]

\* JoinHouseView.post up to the last elif: the membership, capacity and active
\* checks.  A request that fails one is answered at once; one that passes all goes
\* on to its write.
JoinHouseRead(slot, actor, pk) ==
    /\ inflight[slot] = NoRequest
    /\ is_authenticated(actor)
    /\ HouseExists(pk)
    /\ LET outcome == JoinOutcome(houses[pk], actor) IN
       IF outcome = "Joined"
       THEN /\ inflight' = [inflight EXCEPT ![slot] =
                                Request("Join", actor, None, pk, NoRow)]
            /\ UNCHANGED <<resp, toggled>>
       ELSE /\ resp' = Response("Join", actor, None, pk, outcome, "redirect",
                                "hackerhouse_detail", JoinLevel(outcome))
            /\ toggled' = NoToggle
            /\ UNCHANGED inflight
    /\ UNCHANGED <<houses, images, nextImageId, follows, nextFollowId, events, profiles>>

\* JoinHouseView.post, the else branch: members.add and the success notice
JoinHouseWrite(slot) ==
    LET req == inflight[slot] IN
    /\ req.op = "Join"
    /\ houses' = [houses EXCEPT ![req.house] = JoinAdd(@, req.actor)]
    /\ resp' = Response("Join", req.actor, None, req.house, "Joined", "redirect",
                        "hackerhouse_detail", "success")
    /\ inflight' = [inflight EXCEPT ![slot] = NoRequest]
    /\ toggled' = NoToggle
    /\ UNCHANGED <<images, nextImageId, follows, nextFollowId, events, profiles>>

(* ------------------------------ startup -------------------------------- *)
Init ==
    /\ houses = << >>
    /\ images = {}
    /\ nextImageId = 1
    /\ follows = {}
    /\ nextFollowId = 1
    /\ events = {}
    /\ profiles = ProfiledUsers
    /\ resp = NoResponse
    /\ toggled = NoToggle
    /\ inflight = [slot \in Slots |-> NoRequest]

(* ---------------- houses and membership, one request at a time --------- *)
Next ==
    \/ PopulateHouses
    \/ \E actor \in Users, capacity \in CapacityInputs :
           CreateHouse(actor, "Loft", "", capacity, None)
    \/ \E actor \in Users, pk \in HousePks, capacity \in CapacityInputs :
           EditHouse(actor, pk, "Loft", "", capacity, None)
    \/ \E actor \in Users, pk \in HousePks : JoinHouse(actor, pk)
    \/ \E actor \in Users, pk \in HousePks : LeaveHouse(actor, pk)
    \/ \E pk \in HousePks, value \in BOOLEAN : AdminSetActive(pk, value)

Spec == Init /\ [][Next]_vars

(* ------------------- follows, one request at a time -------------------- *)
NextFollow ==
    \/ \E actor \in Users : CreateHouse(actor, "Loft", "", 1, None)
    \/ \E actor \in Actors, pk \in UserPks : ToggleFollow(actor, pk)
    \/ \E actor \in Actors, pk \in HousePks : ToggleFollowHouse(actor, pk)

SpecFollow == Init /\ [][NextFollow]_vars

(* ------------- follows, with writes from the admin add form ------------ *)
NextStore ==
    \/ \E actor \in Users : CreateHouse(actor, "Loft", "", 1, None)
    \/ \E actor \in Users, pk \in Users : ToggleFollow(actor, pk)
    \/ \E actor \in Users, pk \in HousePks : ToggleFollowHouse(actor, pk)
    \/ \E follower \in Users, following_user \in Users \cup {None},
          following_house \in HousePks \cup {NoPk} :
           AdminAddFollow(follower, following_user, following_house)

SpecStore == Init /\ [][NextStore]_vars

(* ------------------ follows, requests running concurrently ------------- *)
NextRace ==
    \/ CreateHouse(SeedHost, "Loft", "", 1, None)
    \/ \E slot \in Slots, actor \in Users \ {SeedHost}, pk \in UserPks \ {SeedHost} :
           ToggleFollowRead(slot, actor, pk)
    \/ \E slot \in Slots : ToggleFollowWrite(slot)
    \/ \E slot \in Slots, actor \in Users \ {SeedHost}, pk \in HousePks :
           ToggleFollowHouseRead(slot, actor, pk)
    \/ \E slot \in Slots : ToggleFollowHouseWrite(slot)

SpecRace == Init /\ [][NextRace]_vars

(* ------------------- events, one request at a time --------------------- *)
EventTitles    == {"", "Demo night"}
EventLocations == {"Roof"}

NextEvents ==
    \/ CreateHouse(SeedHost, "Loft", "", 2, None)
    \/ \E actor \in Users, pk \in HousePks : JoinHouse(actor, pk)
    \/ \E actor \in Users, pk \in HousePks : LeaveHouse(actor, pk)
    \/ \E actor \in Users, pk \in HousePks, title \in EventTitles,
          location \in EventLocations, start_time \in TimeInputs,
          end_time \in TimeInputs :
           CreateHouseEvent(actor, pk, title, location, start_time, end_time)

SpecEvents == Init /\ [][NextEvents]_vars

(* --------------- the event form, submitted by hosts and others --------- *)
NextEventForm ==
    \/ \E actor \in Users : CreateHouse(actor, "Loft", "", 2, None)
    \/ \E actor \in Users, pk \in HousePks, title \in EventTitles,
          location \in EventLocations, start_time \in TimeInputs,
          end_time \in TimeInputs :
           CreateHouseEvent(actor, pk, title, location, start_time, end_time)

SpecEventForm == Init /\ [][NextEventForm]_vars

(* ------------------ house editing, one request at a time --------------- *)
NextEdit ==
    \/ \E upload \in Uploads : CreateHouse(SeedHost, "Loft", "", 2, upload)
    \/ \E actor \in Actors, pk \in HousePks, title \in TitleInputs,
          description \in Descriptions, capacity \in CapacityInputs,
          upload \in Uploads :
           EditHouse(actor, pk, title, description, capacity, upload)

SpecEdit == Init /\ [][NextEdit]_vars

(* ------------------ gallery images, one request at a time -------------- *)
ImagePks == 1..MaxImages

NextImages ==
    \/ \E actor \in Users \ {"bob"}, upload \in Uploads :
           CreateHouse(actor, "Loft", "", 2, upload)
    \/ \E actor \in Users \ {"bob"}, pk \in HousePks :
           EditHouse(actor, pk, "Loft", "", 2, "photo")
    \/ \E actor \in Actors, pk \in HousePks, image_pk \in ImagePks :
           DeleteHouseImage(actor, pk, image_pk)

SpecImages == Init /\ [][NextImages]_vars

(* ------------------ house creation, one request at a time -------------- *)
NextCreate ==
    \/ \E actor \in Actors, title \in TitleInputs, description \in Descriptions,
          capacity \in CapacityInputs, upload \in Uploads :
           CreateHouse(actor, title, description, capacity, upload)
    \/ \E actor \in Users, pk \in HousePks, image_pk \in ImagePks :
           DeleteHouseImage(actor, pk, image_pk)

SpecCreate == Init /\ [][NextCreate]_vars

(* ------------------- the event feed, one request at a time ------------- *)
NextCalendar ==
    \/ CreateHouse(SeedHost, "Loft", "", 2, None)
    \/ \E pk \in HousePks : JoinHouse("ann", pk)
    \/ ToggleFollow("ann", "bob")
    \/ \E pk \in HousePks : ToggleFollowHouse("ann", pk)
    \/ \E actor \in {"ann", "bob"}, pk \in HousePks :
           CreateHouseEvent(actor, pk, "Demo night", "Roof", 0, 1)
    \/ \E house \in HousePks \cup {NoPk} : AdminAddEvent("bob", house, 0, 1)
    \/ \E actor \in {"ann", Anonymous} : EventCalendarGet(actor)

SpecCalendar == Init /\ [][NextCalendar]_vars

(* ------------- every route that asks for a signed-in user -------------- *)
NextAnonymous ==
    \/ \E actor \in {SeedHost, Anonymous}, upload \in Uploads :
           CreateHouse(actor, "Loft", "", 2, upload)
    \/ \E actor \in {SeedHost, Anonymous}, pk \in HousePks :
           EditHouse(actor, pk, "Hub", "", 2, None)
    \/ \E actor \in {SeedHost, Anonymous}, pk \in HousePks, image_pk \in ImagePks :
           DeleteHouseImage(actor, pk, image_pk)
    \/ \E actor \in {"ann", Anonymous} : JoinHouse(actor, 1)
    \/ \E actor \in {"ann", Anonymous} : LeaveHouse(actor, 1)
    \/ \E actor \in {"ann", Anonymous} : ToggleFollow(actor, SeedHost)
    \/ \E actor \in {"ann", Anonymous} : ToggleFollowHouse(actor, 1)
    \/ \E actor \in {"ann", Anonymous} :
           CreateHouseEvent(actor, 1, "Demo night", "Roof", 0, 1)

SpecAnonymous == Init /\ [][NextAnonymous]_vars

(* ---------------- requests that fail, one request at a time ------------ *)
NextErrors ==
    \/ CreateHouse(SeedHost, "Loft", "", 2, None)
    \/ \E pk \in HousePks, value \in BOOLEAN : AdminSetActive(pk, value)
    \/ \E actor \in Users, pk \in HousePks : JoinHouse(actor, pk)
    \/ \E actor \in Users, pk \in HousePks : LeaveHouse(actor, pk)
    \/ \E actor \in {SeedHost, "ann"}, pk \in HousePks, title \in {"", "Hub"} :
           EditHouse(actor, pk, title, "", 2, None)
    \/ \E actor \in {SeedHost, "ann"}, pk \in HousePks :
           DeleteHouseImage(actor, pk, 1)
    \/ \E pk \in {"ann", NoSuchUser} : ToggleFollow("ann", pk)
    \/ \E pk \in HousePks : ToggleFollowHouse("ann", pk)
    \/ \E actor \in {SeedHost, "bob"}, pk \in HousePks, start_time \in TimeInputs :
           CreateHouseEvent(actor, pk, "Demo night", "Roof", start_time, 0)

SpecErrors == Init /\ [][NextErrors]_vars

(* -------------------- joins, requests running concurrently ------------- *)
NextJoinRace ==
    \/ CreateHouse(SeedHost, "Loft", "", 2, None)
    \/ \E slot \in Slots, actor \in Users, pk \in HousePks :
           JoinHouseRead(slot, actor, pk)
    \/ \E slot \in Slots : JoinHouseWrite(slot)

SpecJoinRace == Init /\ [][NextJoinRace]_vars

(* ------------- the life of a house, one request at a time -------------- *)
NextHost ==
    \/ \E capacity \in {0, MaxCapacity}, upload \in Uploads :
           CreateHouse(SeedHost, "Loft", "", capacity, upload)
    \/ \E actor \in {SeedHost, "ann"}, pk \in HousePks : JoinHouse(actor, pk)
    \/ \E actor \in {SeedHost, "ann"}, pk \in HousePks : LeaveHouse(actor, pk)
    \/ \E actor \in {SeedHost, "ann"} : EditHouse(actor, 1, "Hub", "", 0, None)
    \/ \E actor \in {SeedHost, "ann"} : DeleteHouseImage(actor, 1, 1)
    \/ ToggleFollow("ann", SeedHost)
    \/ ToggleFollowHouse(SeedHost, 1)
    \/ \E actor \in {SeedHost, "ann"} :
           CreateHouseEvent(actor, 1, "Demo night", "Roof", 0, 1)

SpecHost == Init /\ [][NextHost]_vars

(* ======================================================================= *)
(*                               Properties                                *)
(* ======================================================================= *)

\* C1: in every state reached by CreateHouse, EditHouse, Join and Leave requests,
\* every house has at most as many members as its capacity.
MemberCountWithinCapacity ==
    \A pk \in DOMAIN houses : MemberCount(houses[pk]) <= houses[pk].capacity

\* A step that answered a Join request for an existing house.
JoinAnswered == resp'.op = "Join" /\ resp'.kind = "redirect" /\ resp'.page # "login"

JoinStepContract ==
    JoinAnswered =>
        LET user   == resp'.actor
            pk     == resp'.house
            house  == houses[pk]
            admits == /\ user \notin house.members
                      /\ MemberCount(house) < house.capacity
                      /\ house.is_active
            refusal == IF user \in house.members THEN "AlreadyMember"
                       ELSE IF MemberCount(house) >= house.capacity THEN "HouseFull"
                       ELSE "HouseInactive"
        IN /\ admits <=> resp'.outcome = "Joined"
           /\ admits => houses' = [houses EXCEPT ![pk].members = house.members \cup {user}]
           /\ ~admits => /\ resp'.outcome = refusal
                         /\ UNCHANGED store
                         /\ JoinOutcome(houses'[pk], user) = resp'.outcome
           /\ UNCHANGED <<images, nextImageId, follows, nextFollowId, events, profiles>>

\* C2: Join adds the user exactly when the user is no member, the house has room and
\* is active; otherwise it answers AlreadyMember, HouseFull or HouseInactive, in that
\* order of precedence, changes nothing, and the same Join again gets the same answer.
JoinContract == [][JoinStepContract]_vars

\* C2 scenario: a house of capacity 2 that had no members took two users and, being
\* full (and by now inactive as well), refuses the third with HouseFull.
JoinThirdRefusedFull ==
    /\ resp.op = "Join"
    /\ resp.outcome = "HouseFull"
    /\ resp.house \in DOMAIN houses
    /\ houses[resp.house].origin = "populate_houses"
    /\ houses[resp.house].capacity = 2
    /\ Cardinality(houses[resp.house].members) = 2
    /\ resp.actor \notin houses[resp.house].members
    /\ ~houses[resp.house].is_active

\* A step that answered a Leave request for an existing house.
LeaveAnswered == resp'.op = "Leave" /\ resp'.kind = "redirect" /\ resp'.page # "login"

LeaveStepContract ==
    LeaveAnswered =>
        LET user  == resp'.actor
            pk    == resp'.house
            house == houses[pk]
        IN /\ user = house.host =>
                 resp'.outcome = "IsHost" /\ UNCHANGED store
           /\ (user # house.host /\ user \notin house.members) =>
                 resp'.outcome = "NotMember" /\ UNCHANGED store
           /\ (user # house.host /\ user \in house.members) =>
                 /\ resp'.outcome = "Left"
                 /\ houses' = [houses EXCEPT ![pk].members = house.members \ {user}]
           /\ houses'[pk].host = house.host
           /\ UNCHANGED <<images, nextImageId, follows, nextFollowId, events, profiles>>

\* C3: Leave by the host is refused with IsHost whether or not the host is a member;
\* by a non-host non-member it is refused with NotMember; both change nothing.  Leave
\* by a non-host member removes that user and nobody else.
LeaveContract == [][LeaveStepContract]_vars

\* C3: the host of a sample house, who is not among its members, was refused.
LeaveHostNotMemberRefused ==
    /\ resp.op = "Leave"
    /\ resp.outcome = "IsHost"
    /\ resp.house \in DOMAIN houses
    /\ houses[resp.house].host = resp.actor
    /\ resp.actor \notin houses[resp.house].members
    /\ houses[resp.house].members # {}
\* C4: after two ToggleFollow requests in a row by one follower on one target (a user
\* or a house), with no request in between, the Follow table says what it said before
\* the first: who follows whom is unchanged.
ToggleTwiceRestores ==
    toggled.count = 2 => FollowPairs(follows) = toggled.before

\* C4: a follower who followed a user toggled twice: the row was deleted and made anew.
ToggledOffAndOnAgain ==
    /\ toggled.count = 2
    /\ toggled.following_user \in Users
    /\ [follower |-> toggled.follower, following_user |-> toggled.following_user,
        following_house |-> NoPk] \in FollowPairs(follows)
    /\ resp.op = "ToggleFollow"
    /\ resp.outcome = "Followed"

SelfFollowRowFree == \A r \in follows : r.following_user # r.follower

SelfToggleRejected ==
    (resp'.op = "ToggleFollow" /\ resp'.actor \in Users /\ resp'.user = resp'.actor) =>
        /\ resp'.outcome = "SelfFollow"
        /\ UNCHANGED <<follows, nextFollowId>>

\* C5: no Follow row ever has following_user equal to its follower, and a ToggleFollow
\* of a user on themselves is answered SelfFollow and writes nothing.
NeverSelfFollow == []SelfFollowRowFree /\ [][SelfToggleRejected]_vars

\* C5: a user who follows somebody tried to follow themselves and was refused.
SelfFollowRefused ==
    /\ resp.op = "ToggleFollow"
    /\ resp.outcome = "SelfFollow"
    /\ resp.user = resp.actor
    /\ \E r \in follows : r.follower = resp.actor
ExactlyOneTargetRows ==
    \A r \in follows : (r.following_user = None) # (r.following_house = NoPk)

CheckViolationStoresNothing ==
    resp'.outcome = "follow_exactly_one_target" => UNCHANGED follows

\* C6: every Follow row names a user or a house, never both and never neither; an
\* insert of any other row is refused by the check constraint and stores nothing.
ExactlyOneTarget == []ExactlyOneTargetRows /\ [][CheckViolationStoresNothing]_vars

\* C6: with Follow rows in the table, an insert was refused by the check constraint.
TwoTargetRowRefused ==
    /\ resp.outcome = "follow_exactly_one_target"
    /\ follows # {}

SamePair(r, q) ==
    /\ r.follower = q.follower
    /\ \/ (r.following_user # None /\ r.following_user = q.following_user)
       \/ (r.following_house # NoPk /\ r.following_house = q.following_house)

OneRowPerPair == \A r, q \in follows : SamePair(r, q) => r = q

UniqueViolationStoresNothing ==
    (resp'.outcome \in {"unique_user_follow", "unique_house_follow"})
        => UNCHANGED follows

\* C7: however concurrent ToggleFollow requests interleave their query and their
\* write, the table holds at most one row per (follower, user) and per (follower,
\* house); the second of two concurrent creates is refused by the unique constraint.
OneFollowPerPair == []OneRowPerPair /\ [][UniqueViolationStoresNothing]_vars

\* C7: two requests saw no row, one created it, the other's create was refused.
SecondCreateRefused ==
    /\ resp.op = "ToggleFollow"
    /\ resp.outcome = "unique_user_follow"
    /\ \E r \in follows : r.follower = resp.actor /\ r.following_user = resp.user
\* A step that answered a CreateEvent request of a signed-in user for an existing house.
EventAnswered ==
    resp'.op = "CreateEvent" /\ resp'.outcome \notin {"LoginRequired", "NotFound"}

EventStepContract ==
    /\ EventAnswered =>
          LET user  == resp'.actor
              pk    == resp'.house
              house == houses[pk]
              permitted == user = house.host \/ user \in house.members
          IN /\ ~permitted => resp'.outcome = "PermissionDenied" /\ UNCHANGED events
             /\ resp'.outcome = "Created" =>
                   /\ permitted
                   /\ \E e \in events' :
                         /\ e \notin events
                         /\ events' = events \cup {e}
                         /\ e.created_by = user
                         /\ e.house = pk
             /\ resp'.outcome # "Created" => UNCHANGED events
    /\ events' # events => resp'.op = "CreateEvent" /\ resp'.outcome = "Created"

\* C8: CreateEvent stores an event only for a user who, at the time of the request, is
\* the host or a member of the house of the route; any other signed-in user is answered
\* PermissionDenied and nothing is stored.  The stored event has created_by = that user
\* and house = the house of the route.
CreateEventByHostOrMemberOnly == [][EventStepContract]_vars

\* C8: a user whose event for the house is on record (made while a member) has left
\* and is refused.
FormerMemberRefused ==
    /\ resp.op = "CreateEvent"
    /\ resp.outcome = "PermissionDenied"
    /\ \E e \in events : e.created_by = resp.actor /\ e.house = resp.house
    /\ resp.actor \notin houses[resp.house].members

EndAfterStart == \A e \in events : e.end_time > e.start_time

\* Whatever form a step's CreateEvent request carried, if its end_time was not after
\* its start_time the step stored nothing.
BadRangeRejected ==
    (resp'.op = "CreateEvent" /\ resp'.actor \in Users) =>
        \A title \in EventTitles, location \in EventLocations,
           start_time \in Times, end_time \in Times :
            (end_time <= start_time
             /\ CreateHouseEvent(resp'.actor, resp'.house, title, location,
                                 start_time, end_time))
                => (UNCHANGED events /\ resp'.outcome # "Created")

\* C9: CreateEvent with end_time <= start_time (equal times included) is rejected and
\* stores nothing, so every stored event ends strictly after it starts.
EventEndsAfterStart == []EndAfterStart /\ [][BadRangeRejected]_vars

\* C9: the host's form for the second house was rejected for its time range.
BadRangeRefused ==
    /\ resp.op = "CreateEvent"
    /\ resp.outcome = "InvalidRange"
    /\ resp.house = 2
    /\ resp.actor = houses[resp.house].host
    /\ events = {}

\* A step that answered an EditHouse request for an existing house.
EditAnswered == resp'.op = "EditHouse" /\ resp'.house \in DOMAIN houses

EditStepContract ==
    EditAnswered =>
        LET actor == resp'.actor
            pk    == resp'.house
        IN /\ actor # houses[pk].host =>
                 /\ resp'.outcome = "PermissionDenied"
                 /\ UNCHANGED <<houses, images, nextImageId>>
           /\ (houses' # houses \/ images' # images) => actor = houses[pk].host
           /\ houses'[pk].host = houses[pk].host
           /\ houses'[pk].members = houses[pk].members

\* C10: EditHouse by anyone but the host is answered PermissionDenied and leaves title,
\* description, capacity, host, members and gallery images as they were; only the
\* host's request changes them.
EditHouseHostOnly == [][EditStepContract]_vars

\* C10: somebody else was refused on a house that its host had edited and that has a
\* gallery image.
NonHostEditRefused ==
    /\ resp.op = "EditHouse"
    /\ resp.outcome = "PermissionDenied"
    /\ resp.actor \in Users
    /\ resp.house \in DOMAIN houses
    /\ resp.actor # houses[resp.house].host
    /\ houses[resp.house].title = "Hub"
    /\ \E i \in images : i.house = resp.house

\* Whatever image a step's DeleteImage request named: it deleted that image alone, and
\* only for the host of the house of the route and an image of that house.
DeleteStepContract ==
    /\ resp'.op = "DeleteImage" =>
          \A image_pk \in ImagePks :
             DeleteHouseImage(resp'.actor, resp'.house, image_pk) =>
                LET actor  == resp'.actor
                    pk     == resp'.house
                    named  == {i \in images : i.id = image_pk}
                    is_host == pk \in DOMAIN houses /\ actor = houses[pk].host
                    of_house == \E i \in named : i.house = pk
                IN /\ (is_host /\ of_house) =>
                        /\ resp'.outcome = "Deleted"
                        /\ images' = images \ named
                        /\ Cardinality(images') = Cardinality(images) - 1
                   /\ ~(is_host /\ of_house) =>
                        /\ resp'.outcome # "Deleted"
                        /\ UNCHANGED images
                   /\ UNCHANGED <<houses, nextImageId>>
    /\ (\E i \in images : i \notin images') =>
          resp'.op = "DeleteImage" /\ resp'.outcome = "Deleted"

\* C11: DeleteImage deletes an image only when the actor is the host of the house of
\* the route and the image belongs to that house; a request by a non-host, or naming an
\* image of another house, deletes nothing; a successful request deletes exactly the
\* image it names.
DeleteImageHostAndHouseOnly == [][DeleteStepContract]_vars

\* C11: every image pk a request can name is in the gallery of some house, and the
\* host of one house got NotFound: the image named belongs to another house.
OtherHouseImageNotDeleted ==
    /\ resp.op = "DeleteImage"
    /\ resp.outcome = "NotFound"
    /\ resp.house \in DOMAIN houses
    /\ resp.actor = houses[resp.house].host
    /\ {i.id : i \in images} = ImagePks
    /\ \E i \in images : i.house = resp.house
    /\ \E i \in images : i.house # resp.house

\* Whatever form a step's CreateHouse request carried: if it was accepted, one house
\* was appended with the form's fields, the requesting user as host and as member, and
\* one image was made for it exactly when the form had an upload.
CreateStepContract ==
    resp'.op = "CreateHouse" =>
        \A title \in TitleInputs, description \in Descriptions,
           capacity \in CapacityInputs, upload \in Uploads :
            CreateHouse(resp'.actor, title, description, capacity, upload) =>
                LET pk == Len(houses) + 1
                    accepted == resp'.actor \in Users /\ title # "" /\ capacity >= 0
                IN /\ accepted <=> resp'.outcome = "Created"
                   /\ accepted =>
                        /\ Len(houses') = pk
                        /\ SubSeq(houses', 1, Len(houses)) = houses
                        /\ houses'[pk].host = resp'.actor
                        /\ houses'[pk].members = {resp'.actor}
                        /\ houses'[pk].title = title
                        /\ houses'[pk].capacity = capacity
                        /\ resp'.house = pk
                        /\ upload # None =>
                              /\ Cardinality(images') = Cardinality(images) + 1
                              /\ \E i \in images' :
                                    /\ i \notin images
                                    /\ i.house = pk
                                    /\ images' = images \cup {i}
                        /\ upload = None => UNCHANGED images
                   /\ ~accepted => UNCHANGED <<houses, images>>

\* C12: a successful CreateHouse persists one new house whose host is the requesting
\* user, adds that user to its members for every accepted capacity (0 included), and
\* creates one gallery image for it exactly when an image was supplied.
CreateHouseContract == [][CreateStepContract]_vars

\* C12: a second house, of capacity 0 and with an upload, was created: its host is a
\* member and it has its one image.
CreatedFullHouseWithImage ==
    /\ resp.op = "CreateHouse"
    /\ resp.outcome = "Created"
    /\ resp.house = 2
    /\ houses[2].capacity = 0
    /\ houses[2].host = resp.actor
    /\ resp.actor \in houses[2].members
    /\ Cardinality({i \in images : i.house = 2}) = 1

\* The feed a step's EventCalendar request was answered with.
CalendarStepContract ==
    resp'.op = "EventCalendar" =>
        LET user == resp'.actor
            feed == resp'.events
        IN /\ user \notin Users => feed = {}
           /\ user \in Users =>
                /\ feed = {e \in events :
                              \E r \in follows : /\ r.follower = user
                                                 /\ r.following_house # NoPk
                                                 /\ r.following_house = e.house}
                /\ \A e \in events :
                      (e.house = NoPk
                       \/ ~\E r \in follows : /\ r.follower = user
                                               /\ r.following_house = e.house)
                          => e \notin feed
           /\ UNCHANGED store

\* C13: EventCalendar returns nothing to an unauthenticated user, and to an
\* authenticated user exactly the events whose house is the target of a Follow row of
\* that user: events of houses the user lives in or hosts but does not follow, events
\* with no house and events created by followed users are not in it.
CalendarIsFollowedHouses == [][CalendarStepContract]_vars

\* C13: the user is a member of the event's house and follows the event's creator and
\* another house, and the feed came back empty.
MemberHouseEventNotListed ==
    /\ resp.op = "EventCalendar"
    /\ resp.actor \in Users
    /\ resp.events = {}
    /\ \E e \in events :
          /\ e.house \in DOMAIN houses
          /\ resp.actor \in houses[e.house].members
          /\ \E r \in follows : r.follower = resp.actor /\ r.following_user = e.created_by
    /\ \E r \in follows : r.follower = resp.actor /\ r.following_house # NoPk

AuthRequiredRoutes ==
    {"CreateHouse", "EditHouse", "DeleteImage", "Join", "Leave", "ToggleFollow",
     "ToggleFollowHouse", "CreateEvent"}

AnonymousStepContract ==
    (resp'.op \in AuthRequiredRoutes /\ resp'.actor = Anonymous) =>
        /\ resp'.kind = "redirect"
        /\ resp'.page = "login"
        /\ UNCHANGED store

\* C14: on every route that asks for a signed-in user (create house, edit house, delete
\* image, join, leave, follow user, follow house, create event) a request of an
\* unauthenticated actor is answered with a redirect to the login page and changes
\* nothing.
AnonymousRedirectedToLogin == [][AnonymousStepContract]_vars

\* the error outcomes of the handlers, by kind
ValidationErrors   == {"Invalid", "InvalidRange"}
PermissionErrors   == {"PermissionDenied"}
StateConflicts     == {"AlreadyMember", "NotMember", "HouseFull", "HouseInactive",
                       "IsHost", "SelfFollow"}
NotFoundErrors     == {"NotFound"}
ErrorOutcomes      ==
    ValidationErrors \cup PermissionErrors \cup StateConflicts \cup NotFoundErrors

ErrorStepContract ==
    resp'.outcome \in ErrorOutcomes =>
        /\ resp'.kind = "redirect"
        /\ resp'.level \in {"info", "warning", "error"}

\* C15: every error outcome of a handler, of each kind (ValidationError,
\* PermissionDenied, StateConflict, NotFound), is answered with a transient notice and
\* a redirect to a page, never with an error response or a re-rendered form.
ErrorsSurfacedAsNotice == [][ErrorStepContract]_vars

\* A Join request's checks and its write are separate steps, and the write adds the
\* user whatever the member count has become since the checks.
JoinWriteStep ==
    \A slot \in Slots :
        /\ (inflight[slot] = NoRequest /\ inflight'[slot].op = "Join") =>
              /\ UNCHANGED houses
              /\ MemberCount(houses[inflight'[slot].house])
                    < houses[inflight'[slot].house].capacity
        /\ (inflight[slot].op = "Join" /\ inflight'[slot] = NoRequest) =>
              LET pk == inflight[slot].house IN
              /\ houses'[pk].members = houses[pk].members \cup {inflight[slot].actor}
              /\ resp'.outcome = "Joined"

\* C16: the membership and capacity checks of Join and its members.add are separate,
\* unguarded steps: two concurrent Join requests of distinct users who are no members,
\* on an active house with one free place, can both pass the capacity check and both
\* be added, which leaves the house with more members than its capacity.
JoinChecksThenAddsUnguarded == [][JoinWriteStep]_vars

\* C16: the house of capacity 2 was created with its host as only member, is active,
\* and now has three members: both joiners were added.
BothJoinedPastCapacity ==
    \E pk \in DOMAIN houses :
        /\ houses[pk].is_active
        /\ houses[pk].capacity = 2
        /\ houses[pk].members = {SeedHost, "ann", "bob"}
        /\ MemberCount(houses[pk]) > houses[pk].capacity
        /\ resp.op = "Join"
        /\ resp.outcome = "Joined"
        /\ \A slot \in Slots : inflight[slot] = NoRequest

\* C17: the host of a house made by CreateHouse is among its members in every later
\* state, whatever Join, Leave, EditHouse, ToggleFollow, CreateEvent and DeleteImage
\* requests any users make: no handler changes the host, and Leave refuses the host.
HostStaysMember ==
    \A pk \in DOMAIN houses :
        houses[pk].origin = "CreateHouse" => houses[pk].host \in houses[pk].members

\* C17: the host of a house that was edited and that others live in asked to leave,
\* was refused and is still a member.
HostRefusedStillMember ==
    /\ resp.op = "Leave"
    /\ resp.outcome = "IsHost"
    /\ resp.house \in DOMAIN houses
    /\ houses[resp.house].origin = "CreateHouse"
    /\ houses[resp.house].title = "Hub"
    /\ houses[resp.house].host = resp.actor
    /\ resp.actor \in houses[resp.house].members
    /\ Cardinality(houses[resp.house].members) > 1
    /\ events # {}

ToggleEndsWellOrWritesNothing ==
    (resp'.op = "ToggleFollow" /\ resp'.actor \in Users) =>
        \/ /\ follows' # follows
           /\ resp'.kind = "redirect"
           /\ resp'.level = "success"
        \/ UNCHANGED follows

\* C18: every ToggleFollow request on a user either changes the Follow table and ends
\* with the success notice and its redirect, or leaves the table as it was; none
\* creates or deletes a row and then ends in an unhandled error, whether or not the
\* target user has a Profile row.
ToggleFollowNeverFailsAfterWrite == [][ToggleEndsWellOrWritesNothing]_vars
====
